---- MODULE Spec2Model ----
(***************************************************************************)
(* A model of CPcapReader (src/pcap_reader.h, src/pcap_reader.cpp): one    *)
(* reader session over one capture file on disk.                           *)
(*                                                                         *)
(* Memory is modelled as bytes.  A uint32_t is the pair <<hi, lo>> of its  *)
(* two 16-bit halves, so that values above 2^31 keep their full width.     *)
(* The build is the little-endian host the source is written for           *)
(* (src/pcap_reader.cpp:2-4).                                              *)
(***************************************************************************)
EXTENDS Integers, Sequences, FiniteSets, TLC

VARIABLES
    disk,       \* the bytes of the capture file at PcapName (never changes)
    capture,    \* what the writer of that file put in it (magic, records, tail)
    fp_,        \* CPcapReader::fp_ : 0 is nullptr, otherwise a handle number
    header_,    \* CPcapReader::header_ : the 24 bytes of pcap_header_t
    handles,    \* every FILE fopen has returned: position, open flag, fclose count
    packet,     \* the caller's pcap_packet_t : 16 prefix bytes and the data bytes written so far
    op,         \* the last call made on the session
    arg,        \* the file name the last call was given ("" when it takes none)
    ret,        \* how that call ended
    pos0,       \* the file position fp_ had when that call began
    lastLife,   \* the last open()/close() call and its outcome
    everOpened, \* some open() has returned normally
    nnext,      \* get_next_packet calls since the last open()
    closeRun,   \* close() calls made in a row just now, counted to 2
    destroyed,  \* ~CPcapReader has run
    outcomes,   \* how the get_next_packet calls on the file of the last open() ended
    consumed,   \* 16 + length, summed over the records returned since the last open()
    eth_header, \* the caller's eth_header_t (header in execute)
    threads,    \* threads that each run parse_packet_headers, and their stack frames
    runs        \* runs of execute that are compared with each other

vars == <<disk, capture, fp_, header_, handles, packet, op, arg, ret, pos0,
          lastLife, everOpened, nnext, closeRun, destroyed, outcomes, consumed,
          eth_header, threads, runs>>

----------------------------------------------------------------------------
(* Bounds of the model *)

\* Most well-formed records in a generated capture file
MaxRecs == 2
\* Most fopen calls that succeed in one behaviour
MaxOpens == 2

\* get_next_packet calls are counted up to one past the call that meets EOF
MaxNext == MaxRecs + 2

----------------------------------------------------------------------------
(* Bytes and integers *)

Min(a, b) == IF a < b THEN a ELSE b

Fill(n, b) == [i \in 1..n |-> b]

Take(s, n) == SubSeq(s, 1, Min(n, Len(s)))

\* The memory image of a uint32_t on the little-endian host
U32Bytes(v) == <<v[2] % 256, v[2] \div 256, v[1] % 256, v[1] \div 256>>

\* A uint32_t field loaded from memory at byte offset off
U32At(mem, off) ==
    <<mem[off + 3] + 256 * mem[off + 4], mem[off + 1] + 256 * mem[off + 2]>>

\* a > n for a uint32_t a and a small constant n (n < 65536)
U32Gt(a, n) == a[1] > 0 \/ a[2] > n

\* sizeof(pcap_packet_t::data)
DataSize == 10000

\* (a fault: the payload read asks for sizeof(packet->data) bytes)
U32Small_whole_buffer(a) == DataSize

\* packet->length as the byte count handed to fread, once it is known to fit
U32Small(a) == a[2]

\* (a fault: link_type declared as two 16-bit fields of which one is dropped)
HeaderSize_short == 4 + 2 + 2 + 4 + 4 + 4

\* sizeof(pcap_header_t), packed
HeaderSize == 4 + 2 + 2 + 4 + 4 + 4 + 4

\* (a fault: the reserved field of the prefix is not read)
PrefixSize_short == 4 + 4 + 4

\* The record prefix get_next_packet reads
PrefixSize == 16

\* Offsets of the fields of pcap_packet_t
OffSeconds     == 0
OffNanoseconds == 4
OffLength      == 8
OffReserved    == 12

MagicNano  == <<\hA1B2, \h3C4D>>
MagicMicro == <<\hA1B2, \hC3D4>>

\* (a fault: the microsecond magic is not let through)
MagicOk_nano_only(m) == m = MagicNano

\* The test of src/pcap_reader.cpp:86
MagicOk(m) == m = MagicNano \/ m = MagicMicro

\* (a fault: >= where the source has >)
LengthFits_off_by_one(len) == ~U32Gt(len, DataSize - 1)

\* The test of src/pcap_reader.cpp:122, negated
LengthFits(len) == ~U32Gt(len, DataSize)

----------------------------------------------------------------------------
(* stdio *)

PcapName == "chargen-udp.pcap"
FileNames == {PcapName, "missing.pcap"}

\* (a fault: a read that cannot be met in full delivers and consumes nothing)
fread_all_or_nothing(bytes, pos, n) ==
    IF pos + n > Len(bytes) THEN <<>> ELSE SubSeq(bytes, pos + 1, pos + n)

\* fread(buf, 1, n, f): the bytes it delivers from position pos
fread(bytes, pos, n) == SubSeq(bytes, pos + 1, Min(pos + n, Len(bytes)))

\* A buffer after fread has stored got at its start
Store(got, buf) ==
    IF Len(got) >= Len(buf) THEN got
    ELSE got \o SubSeq(buf, Len(got) + 1, Len(buf))

NewFile == [pos |-> 0, open |-> TRUE, closes |-> 0]

fclose(hs, h) ==
    [hs EXCEPT ![h] = [pos |-> 0, open |-> FALSE, closes |-> @.closes + 1]]

----------------------------------------------------------------------------
(* The methods of CPcapReader.  Each takes the state it touches and        *)
(* returns the state it leaves and how it ended.                           *)

open(fp, hs, hdr, name, bytes) ==
    IF name # PcapName
    THEN [fp |-> 0, hs |-> hs, hdr |-> hdr, ret |-> "CantOpen"]
    ELSE LET h   == Len(hs) + 1
             got == fread(bytes, 0, HeaderSize)
             hs1 == Append(hs, [NewFile EXCEPT !.pos = Len(got)])
             hd1 == Store(got, hdr)
         IN  IF Len(got) # HeaderSize
             THEN [fp |-> h, hs |-> hs1, hdr |-> hd1, ret |-> "NotPcap"]
             ELSE IF ~MagicOk(U32At(hd1, 0))
             THEN [fp |-> h, hs |-> hs1, hdr |-> hd1, ret |-> "NotPcap"]
             ELSE [fp |-> h, hs |-> hs1, hdr |-> hd1, ret |-> "return"]

\* (a fault: fp_ not reset after fclose)
close_keeps_pointer(fp, hs) ==
    IF fp # 0
    THEN [fp |-> fp, hs |-> fclose(hs, fp)]
    ELSE [fp |-> fp, hs |-> hs]

close(fp, hs) ==
    IF fp # 0
    THEN [fp |-> 0, hs |-> fclose(hs, fp)]
    ELSE [fp |-> fp, hs |-> hs]

\* (a fault: a payload cut short by EOF reported as a bad length)
read_packet_strict(fp, hs, pkt, bytes) ==
    LET got1 == fread(bytes, hs[fp].pos, PrefixSize)
        hs1  == [hs EXCEPT ![fp].pos = @ + Len(got1)]
        pk1  == [pkt EXCEPT !.prefix = Store(got1, @)]
        len  == U32At(pk1.prefix, OffLength)
    IN  IF Len(got1) # PrefixSize
        THEN [hs |-> hs1, pkt |-> pk1, ret |-> "false"]
        ELSE IF ~LengthFits(len)
        THEN [hs |-> hs1, pkt |-> pk1, ret |-> "BadLength"]
        ELSE LET n    == U32Small(len)
                 got2 == fread(bytes, hs1[fp].pos, n)
                 hs2  == [hs1 EXCEPT ![fp].pos = @ + Len(got2)]
                 pk2  == [pk1 EXCEPT !.data = Store(got2, @)]
             IN  IF Len(got2) # n
                 THEN [hs |-> hs2, pkt |-> pk2, ret |-> "BadLength"]
                 ELSE [hs |-> hs2, pkt |-> pk2, ret |-> "true"]

\* src/pcap_reader.cpp:117-130, entered with a file open
read_packet(fp, hs, pkt, bytes) ==
    LET got1 == fread(bytes, hs[fp].pos, PrefixSize)
        hs1  == [hs EXCEPT ![fp].pos = @ + Len(got1)]
        pk1  == [pkt EXCEPT !.prefix = Store(got1, @)]
        len  == U32At(pk1.prefix, OffLength)
    IN  IF Len(got1) # PrefixSize
        THEN [hs |-> hs1, pkt |-> pk1, ret |-> "false"]
        ELSE IF ~LengthFits(len)
        THEN [hs |-> hs1, pkt |-> pk1, ret |-> "BadLength"]
        ELSE LET n    == U32Small(len)
                 got2 == fread(bytes, hs1[fp].pos, n)
                 hs2  == [hs1 EXCEPT ![fp].pos = @ + Len(got2)]
                 pk2  == [pk1 EXCEPT !.data = Store(got2, @)]
             IN  IF Len(got2) # n
                 THEN [hs |-> hs2, pkt |-> pk2, ret |-> "false"]
                 ELSE [hs |-> hs2, pkt |-> pk2, ret |-> "true"]

\* (a fault: no file open treated as EOF, as the comment at line 113 has it)
get_next_packet_eof(fp, hs, pkt, bytes) ==
    IF fp = 0
    THEN [hs |-> hs, pkt |-> pkt, ret |-> "false"]
    ELSE read_packet(fp, hs, pkt, bytes)

get_next_packet(fp, hs, pkt, bytes) ==
    IF fp = 0
    THEN [hs |-> hs, pkt |-> pkt, ret |-> "NotOpen"]
    ELSE read_packet(fp, hs, pkt, bytes)

\* The outcomes named as the error kinds of the interface
IOError     == {"CantOpen"}
FormatError == {"NotPcap", "BadLength"}
UsageError  == {"NotOpen"}

----------------------------------------------------------------------------
(* Capture files *)

Rec(sec, nsec, len, res, payload) ==
    [ts_seconds |-> sec, ts_nanoseconds |-> nsec, length |-> len,
     reserved |-> res, payload |-> payload]

RecA == Rec(<<\h0102, \h0304>>, <<\hFFFF, \hFFFE>>, <<0, 3>>, <<0, 0>>, <<1, 2, 3>>)
RecB == Rec(<<\h8000, 0>>, <<0, 1>>, <<0, 0>>, <<\hDEAD, \hBEEF>>, <<>>)
RecFull == Rec(<<0, 7>>, <<0, 9>>, <<0, DataSize>>, <<0, 0>>, Fill(DataSize, \h5A))
\* An oversized record whose payload is itself laid out as one record
RecInner == Rec(<<0, 5>>, <<0, 6>>, <<0, DataSize + 1 - PrefixSize>>, <<0, 0>>,
                Fill(DataSize + 1 - PrefixSize, \hA5))

PrefixBytes(r) ==
    U32Bytes(r.ts_seconds) \o U32Bytes(r.ts_nanoseconds)
        \o U32Bytes(r.length) \o U32Bytes(r.reserved)

RecBytes(r) == PrefixBytes(r) \o r.payload

HeaderBytes(magic) ==
    U32Bytes(magic) \o <<2, 0>> \o <<4, 0>> \o U32Bytes(<<0, 0>>)
        \o U32Bytes(<<0, 0>>) \o U32Bytes(<<4, 0>>) \o U32Bytes(<<0, 1>>)

RECURSIVE RecsBytes(_)
RecsBytes(rs) ==
    IF rs = <<>> THEN <<>> ELSE RecBytes(Head(rs)) \o RecsBytes(Tail(rs))

RecOver == Rec(<<0, 7>>, <<0, 9>>, <<0, DataSize + 1>>, <<0, 0>>, RecBytes(RecInner))

\* Well-formed records, in sequences of up to MaxRecs
SmallRecs == {RecA, RecB}
RecSeqs == UNION {[1..n -> SmallRecs] : n \in 0..MaxRecs}

\* What may follow the well-formed records
SmallTails ==
    { Take(RecBytes(RecA), 15),                        \* a short prefix
      Take(RecBytes(RecA), 17),                        \* 1 of 3 payload bytes
      PrefixBytes(RecOver),                            \* 10,001 declared, none there
      PrefixBytes(RecOver) \o Fill(PrefixSize, 0),     \* 10,001 declared, 16 zero bytes there
      PrefixBytes(Rec(<<0, 1>>, <<0, 2>>, <<1, 0>>, <<0, 0>>, <<>>)) \o <<9, 9, 9, 9>>,
      PrefixBytes(Rec(<<0, 1>>, <<0, 2>>, <<\hFFFF, \hFFFF>>, <<0, 0>>, <<>>)) }

BigTails ==
    { Take(RecBytes(RecFull), PrefixSize + DataSize - 1), \* 9,999 of 10,000 there
      RecBytes(RecOver) }                                 \* 10,001 declared, all there

BadMagics == {<<\hD4C3, \hB2A1>>, <<\hA1B2, \h3C4E>>, <<\h4D3C, \hB2A1>>, <<0, 0>>}

HeaderCuts == {0, 3, 4, 19, 20, 23}

Capture(magic, hlen, recs, tail) ==
    [magic |-> magic, hlen |-> hlen, recs |-> recs, tail |-> tail]

Captures ==
    {Capture(m, HeaderSize, rs, <<>>) : m \in {MagicNano, MagicMicro}, rs \in RecSeqs}
    \cup {Capture(MagicNano, HeaderSize, rs, t) :
              rs \in {<<>>, <<RecA>>, <<RecB>>}, t \in SmallTails}
    \cup {Capture(MagicNano, HeaderSize, <<>>, t) : t \in BigTails}
    \cup {Capture(MagicNano, HeaderSize, rs, <<>>) : rs \in {<<RecFull>>, <<RecFull, RecA>>}}
    \cup {Capture(m, HeaderSize, rs, <<>>) : m \in BadMagics, rs \in {<<>>, <<RecA>>}}
    \cup {Capture(m, n, <<>>, <<>>) : m \in {MagicNano, <<0, 0>>}, n \in HeaderCuts}

Contents(c) ==
    Take(HeaderBytes(c.magic), c.hlen) \o RecsBytes(c.recs) \o c.tail

\* The magic values a capture file may carry: 0xA1B23C4D and 0xA1B2C3D4
Recognised == {<<\hA1B2, \h3C4D>>, <<\hA1B2, \hC3D4>>}

\* A capture whose header and records are all complete, followed by EOF
WellFormed(c) == c.magic \in Recognised /\ c.hlen = 24 /\ c.tail = <<>>

----------------------------------------------------------------------------
(* parse_packet_headers *)

\* Loads of 16- and 64-bit fields from memory on the little-endian host; a
\* uint64_t is its four 16-bit quarters, most significant first
U16At(mem, off) == mem[off + 1] + 256 * mem[off + 2]

U64At(mem, off) ==
    <<U16At(mem, off + 6), U16At(mem, off + 4), U16At(mem, off + 2), U16At(mem, off)>>

\* The memory images of a uint16_t and of a uint64_t
U16Bytes(v) == <<v % 256, v \div 256>>

U64Bytes(v) == U16Bytes(v[4]) \o U16Bytes(v[3]) \o U16Bytes(v[2]) \o U16Bytes(v[1])

\* (a fault: the value returned as it was loaded)
swap16_noswap(value) == value

swap16(value) ==
    LET byte == U16Bytes(value)
    IN  (byte[1] * 256 + byte[2]) % 65536

swap32(value) ==
    LET byte == U32Bytes(value)
    IN  <<byte[1] * 256 + byte[2], byte[3] * 256 + byte[4]>>

\* (a fault: the shifts done in 32 bits, without the casts to uint64_t)
swap64_nocast(value) ==
    LET byte == U64Bytes(value)
    IN  <<0, 0, byte[5] * 256 + byte[6], byte[7] * 256 + byte[8]>>

swap64(value) ==
    LET byte == U64Bytes(value)
    IN  <<byte[1] * 256 + byte[2], byte[3] * 256 + byte[4],
          byte[5] * 256 + byte[6], byte[7] * 256 + byte[8]>>

\* Byte offsets of the fields of the packed network_order_header_t
NoOff ==
    [eth_dst_mac |-> 0, eth_src_mac |-> 6, eth_type |-> 12,
     ip4_version |-> 14, ip4_dsf |-> 15, ip4_length |-> 16, ip4_id |-> 18,
     ip4_flags |-> 20, ip4_ttl |-> 22, ip4_protocol |-> 23, ip4_checksum |-> 24,
     ip4_src_ip |-> 26, ip4_dst_ip |-> 30,
     udp_src_port |-> 34, udp_dst_port |-> 36, udp_length |-> 38, udp_checksum |-> 40,
     rdmx_magic |-> 42, rdmx_target |-> 44]

\* sizeof(network_order_header_t)
NoSize == 52

\* The caller's eth_header_t before anything has been decoded into it
EthUninit ==
    [is_ethernet |-> FALSE, is_ipv4 |-> FALSE, is_udp |-> FALSE, is_rdmx |-> FALSE,
     eth_dst_mac |-> <<0, 0, 0, 0, 0, 0>>, eth_src_mac |-> <<0, 0, 0, 0, 0, 0>>,
     eth_type |-> 0, ip4_version |-> 0, ip4_dsf |-> 0, ip4_length |-> 0, ip4_id |-> 0,
     ip4_flags |-> 0, ip4_ttl |-> 0, ip4_protocol |-> 0, ip4_checksum |-> 0,
     ip4_src_ip |-> <<0, 0>>, ip4_dst_ip |-> <<0, 0>>,
     udp_src_port |-> 0, udp_dst_port |-> 0, udp_length |-> 0, udp_checksum |-> 0,
     rdmx_magic |-> 0, rdmx_target |-> <<0, 0, 0, 0>>]

\* src/pcap_reader.cpp:246-273: the fields copied and byte-swapped
CopyFields(data, result) ==
    [result EXCEPT
        !.eth_dst_mac  = SubSeq(data, NoOff.eth_dst_mac + 1, NoOff.eth_dst_mac + 6),
        !.eth_src_mac  = SubSeq(data, NoOff.eth_src_mac + 1, NoOff.eth_src_mac + 6),
        !.eth_type     = swap16(U16At(data, NoOff.eth_type)),
        !.ip4_version  = data[NoOff.ip4_version + 1],
        !.ip4_dsf      = data[NoOff.ip4_dsf + 1],
        !.ip4_length   = swap16(U16At(data, NoOff.ip4_length)),
        !.ip4_id       = swap16(U16At(data, NoOff.ip4_id)),
        !.ip4_flags    = swap16(U16At(data, NoOff.ip4_flags)),
        !.ip4_ttl      = data[NoOff.ip4_ttl + 1],
        !.ip4_protocol = data[NoOff.ip4_protocol + 1],
        !.ip4_checksum = swap16(U16At(data, NoOff.ip4_checksum)),
        !.ip4_src_ip   = swap32(U32At(data, NoOff.ip4_src_ip)),
        !.ip4_dst_ip   = swap32(U32At(data, NoOff.ip4_dst_ip)),
        !.udp_src_port = swap16(U16At(data, NoOff.udp_src_port)),
        !.udp_dst_port = swap16(U16At(data, NoOff.udp_dst_port)),
        !.udp_length   = swap16(U16At(data, NoOff.udp_length)),
        !.udp_checksum = swap16(U16At(data, NoOff.udp_checksum)),
        !.rdmx_magic   = swap16(U16At(data, NoOff.rdmx_magic)),
        !.rdmx_target  = swap64(U64At(data, NoOff.rdmx_target))]

\* (a fault: each flag tests its own layer only)
Classify_ungated(result) ==
    [result EXCEPT
        !.is_ethernet = (result.eth_type = \h800),
        !.is_ipv4     = (result.ip4_version = \h45),
        !.is_udp      = (result.ip4_protocol = \h11),
        !.is_rdmx     = (result.rdmx_magic = \h0122)]

\* src/pcap_reader.cpp:275-285: the flags, each gated on the one before
Classify(result) ==
    LET eth  == result.eth_type = \h800
        ipv4 == eth /\ result.ip4_version = \h45
        udp  == ipv4 /\ result.ip4_protocol = \h11
        rdmx == udp /\ result.rdmx_magic = \h0122
    IN  [result EXCEPT !.is_ethernet = eth, !.is_ipv4 = ipv4,
                       !.is_udp = udp, !.is_rdmx = rdmx]

\* (a fault: the multi-byte fields swapped in place in the caller's buffer)
parse_packet_headers_in_place(data, header) ==
    [data   |-> [i \in 1..Len(data) |->
                    IF i \in {NoOff.eth_type + 1, NoOff.eth_type + 2}
                    THEN data[2 * NoOff.eth_type + 3 - i] ELSE data[i]],
     header |-> Classify(CopyFields(data, header))]

\* What the call leaves in the buffer at data and in the structure at header
parse_packet_headers(data, header) ==
    [data |-> data, header |-> Classify(CopyFields(data, header))]

\* The statements of parse_packet_headers in order, src/pcap_reader.cpp:247-285
Prog ==
    <<[kind |-> "copy",   field |-> "eth_dst_mac"],
      [kind |-> "copy",   field |-> "eth_src_mac"],
      [kind |-> "swap16", field |-> "eth_type"],
      [kind |-> "byte",   field |-> "ip4_version"],
      [kind |-> "byte",   field |-> "ip4_dsf"],
      [kind |-> "swap16", field |-> "ip4_length"],
      [kind |-> "swap16", field |-> "ip4_id"],
      [kind |-> "swap16", field |-> "ip4_flags"],
      [kind |-> "byte",   field |-> "ip4_ttl"],
      [kind |-> "byte",   field |-> "ip4_protocol"],
      [kind |-> "swap16", field |-> "ip4_checksum"],
      [kind |-> "swap32", field |-> "ip4_src_ip"],
      [kind |-> "swap32", field |-> "ip4_dst_ip"],
      [kind |-> "swap16", field |-> "udp_src_port"],
      [kind |-> "swap16", field |-> "udp_dst_port"],
      [kind |-> "swap16", field |-> "udp_length"],
      [kind |-> "swap16", field |-> "udp_checksum"],
      [kind |-> "swap16", field |-> "rdmx_magic"],
      [kind |-> "swap64", field |-> "rdmx_target"],
      [kind |-> "flag",   field |-> "is_ethernet"],
      [kind |-> "flag",   field |-> "is_ipv4"],
      [kind |-> "flag",   field |-> "is_udp"],
      [kind |-> "flag",   field |-> "is_rdmx"]>>

\* The parameter `value` of each swap function before any call
NoValue == [swap16 |-> 0, swap32 |-> <<0, 0>>, swap64 |-> <<0, 0, 0, 0>>]

\* (a fault: each swap function keeps its operand in a static variable)
Frame_static(t) == 1

\* The stack that holds the parameter `value` of a swap function called by
\* thread t: that thread's own
Frame(t) == t

\* One flag assignment of src/pcap_reader.cpp:276-285
FlagValue(result, flag) ==
    CASE flag = "is_ethernet" -> result.eth_type = \h800
      [] flag = "is_ipv4"     -> result.is_ethernet /\ result.ip4_version = \h45
      [] flag = "is_udp"      -> result.is_ipv4 /\ result.ip4_protocol = \h11
      [] flag = "is_rdmx"     -> result.is_udp /\ result.rdmx_magic = \h0122

\* Thread t runs its next step.  A statement that calls a swap function
\* takes two steps: the operand is loaded into the callee's frame, then the
\* swapped value is stored in the result.
ThreadStep(T, t) ==
    LET th == T.th[t]
        st == Prog[th.pc]
        k  == st.field
        v  == T.frame[Frame(t)][st.kind]
        advance(h) == [th EXCEPT !.pc = @ + 1, !.phase = "call", !.header = h]
    IN  CASE st.kind = "copy" ->
               [T EXCEPT !.th[t] = advance([th.header EXCEPT
                   ![k] = SubSeq(th.data, NoOff[k] + 1, NoOff[k] + 6)])]
          [] st.kind = "byte" ->
               [T EXCEPT !.th[t] = advance([th.header EXCEPT ![k] = th.data[NoOff[k] + 1]])]
          [] st.kind = "flag" ->
               [T EXCEPT !.th[t] = advance([th.header EXCEPT ![k] = FlagValue(th.header, k)])]
          [] st.kind = "swap16" /\ th.phase = "call" ->
               [T EXCEPT !.th[t].phase = "ret", !.frame[Frame(t)].swap16 = U16At(th.data, NoOff[k])]
          [] st.kind = "swap32" /\ th.phase = "call" ->
               [T EXCEPT !.th[t].phase = "ret", !.frame[Frame(t)].swap32 = U32At(th.data, NoOff[k])]
          [] st.kind = "swap64" /\ th.phase = "call" ->
               [T EXCEPT !.th[t].phase = "ret", !.frame[Frame(t)].swap64 = U64At(th.data, NoOff[k])]
          [] st.kind = "swap16" /\ th.phase = "ret" ->
               [T EXCEPT !.th[t] = advance([th.header EXCEPT ![k] = swap16(v)])]
          [] st.kind = "swap32" /\ th.phase = "ret" ->
               [T EXCEPT !.th[t] = advance([th.header EXCEPT ![k] = swap32(v)])]
          [] st.kind = "swap64" /\ th.phase = "ret" ->
               [T EXCEPT !.th[t] = advance([th.header EXCEPT ![k] = swap64(v)])]

\* No thread is decoding
NoThreads == [th |-> <<>>, frame |-> <<>>]

----------------------------------------------------------------------------
(* The session *)

\* The caller's pcap_packet_t is uninitialised storage before the first call
StackFills == {0, \hCC}

Init ==
    /\ capture \in Captures
    /\ disk = Contents(capture)
    /\ fp_ = 0
    /\ header_ = Fill(HeaderSize, 0)
    /\ handles = <<>>
    /\ \E b \in StackFills : packet = [prefix |-> Fill(PrefixSize, b), data |-> <<>>]
    /\ op = "none"
    /\ arg = ""
    /\ ret = "none"
    /\ pos0 = 0
    /\ lastLife = "none"
    /\ everOpened = FALSE
    /\ nnext = 0
    /\ closeRun = 0
    /\ destroyed = FALSE
    /\ outcomes = {}
    /\ consumed = 0
    /\ eth_header = EthUninit
    /\ threads = NoThreads
    /\ runs = <<>>

Open(name) ==
    /\ ~destroyed
    /\ name = PcapName => Len(handles) < MaxOpens
    /\ LET r == open(fp_, handles, header_, name, disk)
       IN  /\ fp_' = r.fp
           /\ handles' = r.hs
           /\ header_' = r.hdr
           /\ ret' = r.ret
           /\ lastLife' = IF r.ret = "return" THEN "open_ok" ELSE "open_throw"
           /\ everOpened' = (everOpened \/ r.ret = "return")
    /\ op' = "open"
    /\ arg' = name
    /\ pos0' = 0
    /\ nnext' = 0
    /\ closeRun' = 0
    /\ outcomes' = {}
    /\ consumed' = 0
    /\ UNCHANGED <<disk, capture, packet, destroyed, eth_header, threads, runs>>

NextRecord ==
    /\ ~destroyed
    /\ LET r == get_next_packet(fp_, handles, packet, disk)
       IN  /\ handles' = r.hs
           /\ packet' = r.pkt
           /\ ret' = r.ret
           /\ outcomes' = IF fp_ = 0 THEN outcomes ELSE outcomes \cup {r.ret}
           /\ consumed' = IF r.ret = "true"
                           THEN consumed + 16 + U32At(r.pkt.prefix, OffLength)[2]
                           ELSE consumed
    /\ op' = "next"
    /\ pos0' = IF fp_ = 0 THEN 0 ELSE handles[fp_].pos
    /\ nnext' = Min(nnext + 1, MaxNext)
    /\ closeRun' = 0
    /\ arg' = ""
    /\ UNCHANGED <<disk, capture, fp_, header_, lastLife, everOpened, destroyed, eth_header,
                   threads, runs>>

Close ==
    /\ ~destroyed
    /\ LET r == close(fp_, handles)
       IN  /\ fp_' = r.fp
           /\ handles' = r.hs
    /\ op' = "close"
    /\ ret' = "return"
    /\ pos0' = 0
    /\ lastLife' = "close"
    /\ closeRun' = Min(closeRun + 1, 2)
    /\ arg' = ""
    /\ UNCHANGED <<disk, capture, header_, packet, everOpened, nnext, destroyed,
                   outcomes, consumed, eth_header, threads, runs>>

Destroy ==
    /\ ~destroyed
    /\ LET r == close(fp_, handles)
       IN  /\ fp_' = r.fp
           /\ handles' = r.hs
    /\ op' = "destroy"
    /\ ret' = "return"
    /\ pos0' = 0
    /\ destroyed' = TRUE
    /\ arg' = ""
    /\ UNCHANGED <<disk, capture, header_, packet, lastLife, everOpened, nnext, closeRun,
                   outcomes, consumed, eth_header, threads, runs>>

\* parse_packet_headers(packet.data, &header), as execute calls it.  Bytes of
\* packet.data that nothing has written yet are uninitialised storage.
Parse ==
    /\ ~destroyed
    /\ \E g \in StackFills :
          LET have == Len(packet.data)
              data == IF have >= NoSize THEN packet.data
                      ELSE packet.data \o Fill(NoSize - have, g)
              r    == parse_packet_headers(data, eth_header)
          IN  /\ eth_header' = r.header
              /\ packet' = [packet EXCEPT !.data = SubSeq(r.data, 1, have)]
    /\ op' = "parse"
    /\ arg' = ""
    /\ ret' = "return"
    /\ pos0' = 0
    /\ closeRun' = 0
    /\ UNCHANGED <<disk, capture, fp_, header_, handles, lastLife, everOpened, nnext,
                   destroyed, outcomes, consumed, threads, runs>>

Next ==
    \/ \E name \in FileNames : Open(name)
    \/ NextRecord
    \/ Close
    \/ Destroy

Spec == Init /\ [][Next]_vars

----------------------------------------------------------------------------
(* Buffers handed to parse_packet_headers *)

\* Most bytes a generated buffer has beyond the 52 that are decoded
MaxExtra == 1

\* Network byte order
BE16(v) == <<v \div 256, v % 256>>
BE32(v) == BE16(v[1]) \o BE16(v[2])
BE64(v) == BE16(v[1]) \o BE16(v[2]) \o BE16(v[3]) \o BE16(v[4])

\* The 52 bytes that carry the field values f on the wire
Encode(f) ==
    f.eth_dst_mac \o f.eth_src_mac \o BE16(f.eth_type)
        \o <<f.ip4_version, f.ip4_dsf>> \o BE16(f.ip4_length) \o BE16(f.ip4_id)
        \o BE16(f.ip4_flags) \o <<f.ip4_ttl, f.ip4_protocol>> \o BE16(f.ip4_checksum)
        \o BE32(f.ip4_src_ip) \o BE32(f.ip4_dst_ip)
        \o BE16(f.udp_src_port) \o BE16(f.udp_dst_port) \o BE16(f.udp_length)
        \o BE16(f.udp_checksum) \o BE16(f.rdmx_magic) \o BE64(f.rdmx_target)

\* An RDMX packet to the broadcast address, everything else zero
RdmxFields ==
    [eth_dst_mac |-> <<255, 255, 255, 255, 255, 255>>, eth_src_mac |-> <<0, 0, 0, 0, 0, 0>>,
     eth_type |-> \h0800, ip4_version |-> \h45, ip4_dsf |-> 0, ip4_length |-> 0,
     ip4_id |-> 0, ip4_flags |-> 0, ip4_ttl |-> 0, ip4_protocol |-> \h11,
     ip4_checksum |-> 0, ip4_src_ip |-> <<0, 0>>, ip4_dst_ip |-> <<0, 0>>,
     udp_src_port |-> 0, udp_dst_port |-> 0, udp_length |-> 0, udp_checksum |-> 0,
     rdmx_magic |-> \h0122, rdmx_target |-> <<0, 0, 0, 0>>]

\* The same with every other field at a value whose top bit is set
HighFields ==
    [eth_dst_mac |-> <<1, 2, 3, 4, 5, 6>>, eth_src_mac |-> <<\hFA, \hFB, \hFC, \hFD, \hFE, \hFF>>,
     eth_type |-> \h0800, ip4_version |-> \h45, ip4_dsf |-> \h80, ip4_length |-> \h8001,
     ip4_id |-> \hFFFE, ip4_flags |-> \hC000, ip4_ttl |-> \hFF, ip4_protocol |-> \h11,
     ip4_checksum |-> \h80FF, ip4_src_ip |-> <<\hC0A8, \h0001>>,
     ip4_dst_ip |-> <<\hFFFF, \hFFFF>>, udp_src_port |-> \hFFFF, udp_dst_port |-> \h8000,
     udp_length |-> \hA55A, udp_checksum |-> \h00FF, rdmx_magic |-> \h0122,
     rdmx_target |-> <<\h8123, \h4567, \h89AB, \hCDEF>>]

FieldValues(k) ==
    IF k \in {"eth_dst_mac", "eth_src_mac"}
    THEN {<<0, 0, 0, 0, 0, 0>>, <<1, 2, 3, 4, 5, 6>>, <<255, 254, 253, 252, 251, 250>>}
    ELSE IF k \in {"ip4_version", "ip4_dsf", "ip4_ttl", "ip4_protocol"}
    THEN {0, \h11, \h45, \h54, \h80, \hFF}
    ELSE IF k \in {"ip4_src_ip", "ip4_dst_ip"}
    THEN {<<0, 0>>, <<\h0102, \h0304>>, <<\h8000, 0>>, <<0, \h8000>>, <<\hFFFF, \hFFFF>>}
    ELSE IF k = "rdmx_target"
    THEN {<<0, 0, 0, 0>>, <<\h0102, \h0304, \h0506, \h0708>>, <<\h8000, 0, 0, 0>>,
          <<0, 0, \h8000, 0>>, <<\hFFFF, \hFFFF, \hFFFF, \hFFFF>>}
    ELSE {0, \h0008, \h0122, \h2201, \h0800, \h8000, \hFFFF}

\* One field varied at a time, and the four classified fields varied together
FieldSets ==
    UNION {{[b EXCEPT ![k] = v] : v \in FieldValues(k)} :
              k \in DOMAIN RdmxFields, b \in {RdmxFields, HighFields}}
    \cup {[RdmxFields EXCEPT !.eth_type = e, !.ip4_version = i,
                             !.ip4_protocol = u, !.rdmx_magic = x] :
              e \in {\h0800, \h0008, \h0806}, i \in {\h45, \h46},
              u \in {\h11, \h06}, x \in {\h0122, \h2201}}

Buffers == {Encode(f) \o Fill(n, \hEE) : f \in FieldSets, n \in 0..MaxExtra}

\* A caller that fills packet.data itself and decodes it, no file involved
InitDecode ==
    /\ capture = Capture(MagicNano, HeaderSize, <<>>, <<>>)
    /\ disk = Contents(capture)
    /\ fp_ = 0
    /\ header_ = Fill(HeaderSize, 0)
    /\ handles = <<>>
    /\ \E b \in Buffers : packet = [prefix |-> Fill(PrefixSize, 0), data |-> b]
    /\ op = "none"
    /\ arg = ""
    /\ ret = "none"
    /\ pos0 = 0
    /\ lastLife = "none"
    /\ everOpened = FALSE
    /\ nnext = 0
    /\ closeRun = 0
    /\ destroyed = FALSE
    /\ outcomes = {}
    /\ consumed = 0
    /\ eth_header = EthUninit
    /\ threads = NoThreads
    /\ runs = <<>>

NextDecode == Parse

SpecDecode == InitDecode /\ [][NextDecode]_vars

\* Records that carry an Ethernet frame, of 53 and of 52 bytes
RecEth  == Rec(<<0, 1>>, <<0, 2>>, <<0, NoSize + 1>>, <<0, 0>>, Encode(HighFields) \o <<\hEE>>)
RecRdmx == Rec(<<0, 3>>, <<0, 4>>, <<0, NoSize>>, <<0, 0>>, Encode(RdmxFields))

UseCaptures ==
    {Capture(MagicNano, HeaderSize, rs, <<>>) :
        rs \in {<<RecEth, RecA>>, <<RecA, RecRdmx>>, <<RecRdmx, RecB, RecEth>>}}
    \cup {Capture(<<0, 0>>, HeaderSize, <<RecEth>>, <<>>)}

\* What the caller's packet.data holds before the first call: nothing, or a
\* frame the caller put there
UseBuffers ==
    {<<>>, Encode(RdmxFields), Encode([HighFields EXCEPT !.eth_type = \h0806]) \o <<\hEE>>}

\* A caller that opens, reads, decodes and closes in any order
InitUse ==
    /\ capture \in UseCaptures
    /\ disk = Contents(capture)
    /\ fp_ = 0
    /\ header_ = Fill(HeaderSize, 0)
    /\ handles = <<>>
    /\ \E b \in UseBuffers : packet = [prefix |-> Fill(PrefixSize, 0), data |-> b]
    /\ op = "none"
    /\ arg = ""
    /\ ret = "none"
    /\ pos0 = 0
    /\ lastLife = "none"
    /\ everOpened = FALSE
    /\ nnext = 0
    /\ closeRun = 0
    /\ destroyed = FALSE
    /\ outcomes = {}
    /\ consumed = 0
    /\ eth_header = EthUninit
    /\ threads = NoThreads
    /\ runs = <<>>

NextUse ==
    \/ \E name \in FileNames : Open(name)
    \/ NextRecord
    \/ Parse
    \/ Close
    \/ Destroy

SpecUse == InitUse /\ [][NextUse]_vars

\* Threads that decode at the same time
NThreads == 2

\* Distinct buffers for the threads
ConcBuffers ==
    <<Encode(RdmxFields), Encode(HighFields) \o <<\hEE>>,
      Encode([HighFields EXCEPT !.eth_type = \h0806, !.rdmx_target = <<1, 2, 3, 4>>]),
      Encode([RdmxFields EXCEPT !.ip4_src_ip = <<\h0A00, \h0001>>, !.udp_dst_port = 19]),
      Encode([HighFields EXCEPT !.rdmx_magic = \h2201])>>

\* Each thread starts parse_packet_headers on a buffer and a result of its own
InitConc ==
    /\ capture = Capture(MagicNano, HeaderSize, <<>>, <<>>)
    /\ disk = Contents(capture)
    /\ fp_ = 0
    /\ header_ = Fill(HeaderSize, 0)
    /\ handles = <<>>
    /\ packet = [prefix |-> Fill(PrefixSize, 0), data |-> <<>>]
    /\ op = "none"
    /\ arg = ""
    /\ ret = "none"
    /\ pos0 = 0
    /\ lastLife = "none"
    /\ everOpened = FALSE
    /\ nnext = 0
    /\ closeRun = 0
    /\ destroyed = FALSE
    /\ outcomes = {}
    /\ consumed = 0
    /\ eth_header = EthUninit
    /\ runs = <<>>
    /\ \E shift \in 0..(Len(ConcBuffers) - 1) :
          threads =
            [th    |-> [t \in 1..NThreads |->
                          [pc |-> 1, phase |-> "call",
                           data |-> ConcBuffers[((t + shift) % Len(ConcBuffers)) + 1],
                           header |-> EthUninit]],
             frame |-> [f \in 1..NThreads |-> NoValue]]

Step(t) ==
    /\ threads.th[t].pc <= Len(Prog)
    /\ threads' = ThreadStep(threads, t)
    /\ UNCHANGED <<disk, capture, fp_, header_, handles, packet, op, arg, ret, pos0,
                   lastLife, everOpened, nnext, closeRun, destroyed, outcomes,
                   consumed, eth_header, runs>>

NextConc == \E t \in 1..NThreads : Step(t)

SpecConc == InitConc /\ [][NextConc]_vars

\* The capture files the demo program is run on
PairCaptures ==
    {Capture(MagicNano, HeaderSize, rs, <<>>) :
        rs \in {<<RecA>>, <<RecEth, RecA>>, <<RecRdmx, RecA>>, <<RecA, RecEth>>}}
    \cup {Capture(<<0, 0>>, HeaderSize, <<RecA>>, <<>>)}

\* execute() of src/main.cpp about to start on the file `bytes`, its locals
\* packet and header on a stack that holds the byte g
Execute(bytes, g) ==
    [bytes  |-> bytes,
     fp_    |-> 0,
     header_ |-> Fill(HeaderSize, 0),
     handles |-> <<>>,
     packet |-> [prefix |-> Fill(PrefixSize, g), data |-> Fill(NoSize, g)],
     header |-> EthUninit,
     fill   |-> g,
     pc     |-> "open",
     ret    |-> "none"]

\* Two runs of the program, each on a file of its own
InitPair ==
    /\ capture = Capture(MagicNano, HeaderSize, <<>>, <<>>)
    /\ disk = Contents(capture)
    /\ fp_ = 0
    /\ header_ = Fill(HeaderSize, 0)
    /\ handles = <<>>
    /\ packet = [prefix |-> Fill(PrefixSize, 0), data |-> <<>>]
    /\ op = "none"
    /\ arg = ""
    /\ ret = "none"
    /\ pos0 = 0
    /\ lastLife = "none"
    /\ everOpened = FALSE
    /\ nnext = 0
    /\ closeRun = 0
    /\ destroyed = FALSE
    /\ outcomes = {}
    /\ consumed = 0
    /\ eth_header = EthUninit
    /\ threads = NoThreads
    /\ \E c1 \in PairCaptures, c2 \in PairCaptures, g1 \in StackFills, g2 \in StackFills :
          runs = <<Execute(Contents(c1), g1), Execute(Contents(c2), g2)>>

PairUnchanged ==
    UNCHANGED <<disk, capture, fp_, header_, handles, packet, op, arg, ret, pos0,
                lastLife, everOpened, nnext, closeRun, destroyed, outcomes,
                consumed, eth_header, threads>>

\* reader.open("chargen-udp.pcap"); an exception ends the program
ExecOpen(i) ==
    /\ runs[i].pc = "open"
    /\ LET e == runs[i]
           r == open(e.fp_, e.handles, e.header_, PcapName, e.bytes)
       IN  runs' = [runs EXCEPT ![i] =
                      [e EXCEPT !.fp_ = r.fp, !.handles = r.hs, !.header_ = r.hdr,
                                !.ret = r.ret,
                                !.pc = IF r.ret = "return" THEN "read" ELSE "done"]]
    /\ PairUnchanged

\* while (reader.get_next_packet(&packet))
ExecRead(i) ==
    /\ runs[i].pc = "read"
    /\ LET e == runs[i]
           r == get_next_packet(e.fp_, e.handles, e.packet, e.bytes)
       IN  runs' = [runs EXCEPT ![i] =
                      [e EXCEPT !.handles = r.hs, !.packet = r.pkt, !.ret = r.ret,
                                !.pc = IF r.ret = "true" THEN "parse" ELSE "done"]]
    /\ PairUnchanged

\* reader.parse_packet_headers(packet.data, &header)
ExecParse(i) ==
    /\ runs[i].pc = "parse"
    /\ LET e == runs[i]
           r == parse_packet_headers(e.packet.data, e.header)
       IN  runs' = [runs EXCEPT ![i] =
                      [e EXCEPT !.header = r.header, !.packet.data = r.data,
                                !.ret = "decoded", !.pc = "read"]]
    /\ PairUnchanged

NextPair ==
    \E i \in 1..2 :
        \/ ExecOpen(i)
        \/ ExecRead(i)
        \/ ExecParse(i)

SpecPair == InitPair /\ [][NextPair]_vars

TypeOK ==
    /\ fp_ \in 0..Len(handles)
    /\ Len(header_) = HeaderSize
    /\ Len(packet.prefix) = PrefixSize
    /\ Len(packet.data) <= DataSize
    /\ ret \in {"none", "return", "true", "false"} \cup IOError \cup FormatError \cup UsageError

----------------------------------------------------------------------------
(* The session as its caller sees it *)

\* The last open()/close() call was an open() that returned normally
Opened == lastLife = "open_ok"

\* close() was the last open()/close() call, on a session that had been opened
Closed == lastLife = "close" /\ everOpened

\* No open() has returned normally yet
Unopened == ~everOpened

\* The records the writer put in the file
NRecs == Len(capture.recs)

\* Bytes left in the file when the last call began
Avail0 == Len(disk) - pos0

\* A little-endian 32-bit integer of the file, as <<high half, low half>>
WireU32(off) ==
    <<disk[off + 3] + 256 * disk[off + 4], disk[off + 1] + 256 * disk[off + 2]>>

\* The length declared by the record prefix the last call began at
Declared0 == WireU32(pos0 + 8)

\* That length as a number when it is at most 65,535, otherwise 65,536
DeclaredNum0 == IF Declared0[1] > 0 THEN 65536 ELSE Declared0[2]

----------------------------------------------------------------------------
(* The reader's contract *)

\* C1: on a file of N well-formed records followed by EOF, after a
\* successful open the k-th get_next_packet (1 <= k <= N) returns true with
\* the k-th record's timestamps, declared length and exactly length payload
\* bytes, and call N+1 returns false.
C1_RecordsInFileOrder ==
    (op = "next" /\ Opened /\ WellFormed(capture)) =>
        /\ nnext \in 1..NRecs =>
              LET r == capture.recs[nnext]
              IN  /\ ret = "true"
                  /\ U32At(packet.prefix, OffSeconds) = r.ts_seconds
                  /\ U32At(packet.prefix, OffNanoseconds) = r.ts_nanoseconds
                  /\ U32At(packet.prefix, OffLength) = r.length
                  /\ Len(packet.data) >= Len(r.payload)
                  /\ SubSeq(packet.data, 1, r.length[2]) = r.payload
        /\ nnext = NRecs + 1 => ret = "false"

C1_Witness ==
    /\ op = "next" /\ Opened /\ WellFormed(capture)
    /\ NRecs >= 2 /\ nnext = NRecs /\ ret = "true"
    /\ capture.recs[nnext] = RecA

\* C2: open on a file holding a complete container header returns normally
\* exactly when the leading magic is 0xA1B23C4D or 0xA1B2C3D4, and otherwise
\* fails with a format error.
C2_MagicDecidesOpen ==
    (op = "open" /\ arg = PcapName /\ Len(disk) >= HeaderSize) =>
        /\ ret = "return" <=> capture.magic \in Recognised
        /\ ret # "return" => ret \in FormatError

C2_Witness ==
    /\ op = "open" /\ arg = PcapName /\ Len(disk) > HeaderSize
    /\ capture.magic = <<\hA1B2, \hC3D4>> /\ ret = "return"

\* C3 as stated: the container header is 20 bytes, so open fails on files
\* shorter than 20 bytes, succeeds on files of 20 or more bytes with a
\* recognised magic, and the first get_next_packet reads from offset 20.
C3_Header20 ==
    /\ (op = "open" /\ arg = PcapName) =>
          /\ Len(disk) < 20 => ret \in FormatError
          /\ (Len(disk) >= 20 /\ WireU32(0) \in Recognised) => ret = "return"
    /\ (op = "next" /\ Opened /\ nnext = 1) => pos0 = 20

\* C3 amended: the container header is 24 bytes, so open fails with a format
\* error on files shorter than 24 bytes, succeeds on files of 24 or more
\* bytes with a recognised magic, and the first get_next_packet reads its
\* 16-byte prefix from offset 24.
C3_Header24 ==
    /\ (op = "open" /\ arg = PcapName) =>
          /\ Len(disk) < 24 => ret \in FormatError
          /\ (Len(disk) >= 24 /\ WireU32(0) \in Recognised) => ret = "return"
    /\ (op = "next" /\ Opened /\ nnext = 1) =>
          /\ pos0 = 24
          /\ Len(disk) >= 40 => packet.prefix = SubSeq(disk, 25, 40)

C3_Witness ==
    /\ op = "open" /\ arg = PcapName
    /\ Len(disk) \in 20..23 /\ WireU32(0) \in Recognised
    /\ ret = "NotPcap"

\* C4: on an opened session get_next_packet fails with a format error
\* exactly when a fully read 16-byte prefix declares a length above 10,000,
\* whether or not that many bytes remain in the file.
C4_OversizeIsFormatError ==
    (op = "next" /\ Opened) =>
        (ret \in FormatError <=> (Avail0 >= 16 /\ DeclaredNum0 > 10000))

C4_Witness ==
    /\ op = "next" /\ Opened /\ ret = "BadLength"
    /\ DeclaredNum0 = 10001 /\ Avail0 - 16 >= 10001

\* C5: on an opened session get_next_packet returns false, raising nothing,
\* when fewer than 16 bytes remain, and when a complete prefix declares a
\* length L <= 10,000 of which fewer than L bytes remain.
C5_ShortReadIsNone ==
    (op = "next" /\ Opened) =>
        /\ Avail0 < 16 => ret = "false"
        /\ (Avail0 >= 16 /\ DeclaredNum0 <= 10000 /\ Avail0 - 16 < DeclaredNum0)
              => ret = "false"

C5_Witness ==
    /\ op = "next" /\ Opened /\ ret = "false"
    /\ Avail0 >= 16 /\ DeclaredNum0 = 10000 /\ Avail0 - 16 = 9999

\* The FILE handles fopen has returned that are still open
OpenHandles == {h \in 1..Len(handles) : handles[h].open}

C7_FailedOpenReleasesHandle ==
    /\ (op = "open" /\ ret \in IOError \cup FormatError) =>
          /\ fp_ = 0
          /\ arg = PcapName => ~handles[Len(handles)].open
    /\ (op = "next" /\ lastLife = "open_throw") => ret \in UsageError

\* C8: at any time at most one handle acquired by the session is open, no
\* handle is closed twice, and once the session is destroyed every handle
\* open acquired has been closed exactly once.
C8_HandlesReleasedExactlyOnce ==
    /\ Cardinality(OpenHandles) <= 1
    /\ \A h \in 1..Len(handles) : handles[h].closes <= 1
    /\ destroyed =>
          \A h \in 1..Len(handles) : ~handles[h].open /\ handles[h].closes = 1

\* C9: close leaves the session with no file handle and releases the one it
\* held; a close on a session that holds none (a second close, or a close
\* before any open) changes no state and raises nothing.
C9_CloseIdempotent ==
    [][op' = "close" =>
          /\ ret' = "return"
          /\ fp_' = 0
          /\ fp_ # 0 => (~handles'[fp_].open /\ handles'[fp_].closes = 1)
          /\ fp_ = 0 => <<fp_, header_, handles, packet, disk>>'
                           = <<fp_, header_, handles, packet, disk>>]_vars

C9_Witness ==
    /\ op = "close" /\ closeRun = 2 /\ everOpened
    /\ fp_ = 0 /\ \E h \in 1..Len(handles) : handles[h].closes = 1

\* C10: a closed session is never taken back to unopened or to opened, and
\* get_next_packet returns a record only while the session is opened.
C10_StateOnlyMovesForward ==
    [][/\ Closed => (~Opened' /\ ~Unopened')
       /\ (op' = "next" /\ ret' = "true") => Opened]_vars

\* C17: once get_next_packet has thrown "Bad packet length" on an opened
\* session, no later get_next_packet call on that session returns a record.
C17_FormatErrorIsFatal ==
    [][("BadLength" \in outcomes /\ Opened /\ fp_ # 0 /\ op' = "next")
          => ret' # "true"]_vars

\* C18: once get_next_packet has returned false on an opened session, every
\* later get_next_packet call on it before close returns false as well,
\* whether the first false came from a short prefix or from a short payload.
C18_NoneIsAbsorbing ==
    [][("false" \in outcomes /\ Opened /\ fp_ # 0 /\ op' = "next")
          => ret' = "false"]_vars

\* false after a payload cut short, then false again
C18_Witness ==
    /\ Opened /\ op = "next" /\ ret = "false" /\ nnext = 2 /\ outcomes = {"false"}
    /\ Len(disk) = 24 + 16 + 1
    /\ WireU32(24 + 8) = <<0, 3>>

\* C19: while every get_next_packet call of an opened session has returned
\* a record, the file position is 24 plus the sum of 16 + length over the
\* records returned, and the record just returned has a length of at most
\* 10,000 that equals the payload bytes read for it.
C19_PositionIsSumOfRecords ==
    (Opened /\ fp_ # 0 /\ outcomes \subseteq {"true"}) =>
        /\ handles[fp_].pos = 24 + consumed
        /\ op = "next" =>
              /\ ret = "true"
              /\ DeclaredNum0 <= 10000
              /\ handles[fp_].pos - pos0 - 16 = DeclaredNum0
              /\ SubSeq(packet.data, 1, DeclaredNum0)
                    = SubSeq(disk, pos0 + 16 + 1, pos0 + 16 + DeclaredNum0)

C19_Witness ==
    /\ Opened /\ fp_ # 0 /\ outcomes = {"true"} /\ op = "next" /\ nnext = 2
    /\ handles[fp_].pos = 24 + 16 + 10000 + 16 + 3
    /\ DeclaredNum0 = 3

----------------------------------------------------------------------------
(* The decoder's contract *)

\* Bytes off, off+1 of the decoded buffer read as a big-endian integer
WireBE16(off) == packet.data[off + 1] * 256 + packet.data[off + 2]

\* C11: for every buffer of at least 52 bytes the decoded flags are
\* monotone (is_rdmx => is_udp => is_ipv4 => is_ethernet), and when the
\* decoded eth_type is not 0x0800 all four flags are false.
C11_FlagsMonotone ==
    (op = "parse" /\ Len(packet.data) >= 52) =>
        /\ eth_header.is_rdmx => eth_header.is_udp
        /\ eth_header.is_udp => eth_header.is_ipv4
        /\ eth_header.is_ipv4 => eth_header.is_ethernet
        /\ eth_header.eth_type # \h0800 =>
              /\ ~eth_header.is_ethernet /\ ~eth_header.is_ipv4
              /\ ~eth_header.is_udp /\ ~eth_header.is_rdmx

C11_Witness ==
    /\ op = "parse" /\ Len(packet.data) >= 52
    /\ eth_header.eth_type # \h0800
    /\ eth_header.ip4_version = \h45 /\ eth_header.ip4_protocol = \h11
    /\ eth_header.rdmx_magic = \h0122
    /\ ~eth_header.is_rdmx

\* C12: decoding the 52 bytes that carry known field values in network byte
\* order gives back every field value, top bit set or not, and with
\* eth_type 0x0800, version 0x45, protocol 0x11 and magic 0x0122 all four
\* flags are true.
C12_RoundTrip ==
    op = "parse" =>
        \A f \in FieldSets :
            SubSeq(packet.data, 1, 52) = Encode(f) =>
                /\ \A k \in DOMAIN f : eth_header[k] = f[k]
                /\ (f.eth_type = \h0800 /\ f.ip4_version = \h45
                        /\ f.ip4_protocol = \h11 /\ f.rdmx_magic = \h0122) =>
                      /\ eth_header.is_ethernet /\ eth_header.is_ipv4
                      /\ eth_header.is_udp /\ eth_header.is_rdmx

C12_Witness ==
    /\ op = "parse" /\ packet.data = Encode(HighFields)
    /\ eth_header.rdmx_target = <<\h8123, \h4567, \h89AB, \hCDEF>>
    /\ eth_header.ip4_dst_ip = <<\hFFFF, \hFFFF>>
    /\ eth_header.is_rdmx

\* C13: for every buffer of at least 52 bytes, is_ethernet iff bytes 12-13
\* read big-endian are 0x0800; is_ipv4 iff is_ethernet and byte 14 is 0x45;
\* is_udp iff is_ipv4 and byte 23 is 0x11; is_rdmx iff is_udp and bytes
\* 42-43 read big-endian are 0x0122.
C13_FlagsExact ==
    (op = "parse" /\ Len(packet.data) >= 52) =>
        /\ eth_header.is_ethernet <=> WireBE16(12) = \h0800
        /\ eth_header.is_ipv4 <=> (eth_header.is_ethernet /\ packet.data[15] = \h45)
        /\ eth_header.is_udp <=> (eth_header.is_ipv4 /\ packet.data[24] = \h11)
        /\ eth_header.is_rdmx <=> (eth_header.is_udp /\ WireBE16(42) = \h0122)

C13_Witness ==
    /\ op = "parse" /\ Len(packet.data) >= 52
    /\ WireBE16(12) = \h0800 /\ packet.data[15] = \h45 /\ packet.data[24] = \h11
    /\ WireBE16(42) = \h2201
    /\ eth_header.is_udp /\ ~eth_header.is_rdmx

\* The header a buffer of at least 52 bytes stands for: every multi-byte
\* field read big-endian at its documented offset, and the four flags
RefBE16(buf, off) == buf[off + 1] * 256 + buf[off + 2]

RefHeader(buf) ==
    LET eth  == RefBE16(buf, 12) = \h0800
        ipv4 == eth /\ buf[15] = \h45
        udp  == ipv4 /\ buf[24] = \h11
        rdmx == udp /\ RefBE16(buf, 42) = \h0122
    IN  [is_ethernet |-> eth, is_ipv4 |-> ipv4, is_udp |-> udp, is_rdmx |-> rdmx,
         eth_dst_mac |-> SubSeq(buf, 1, 6), eth_src_mac |-> SubSeq(buf, 7, 12),
         eth_type |-> RefBE16(buf, 12),
         ip4_version |-> buf[15], ip4_dsf |-> buf[16],
         ip4_length |-> RefBE16(buf, 16), ip4_id |-> RefBE16(buf, 18),
         ip4_flags |-> RefBE16(buf, 20), ip4_ttl |-> buf[23], ip4_protocol |-> buf[24],
         ip4_checksum |-> RefBE16(buf, 24),
         ip4_src_ip |-> <<RefBE16(buf, 26), RefBE16(buf, 28)>>,
         ip4_dst_ip |-> <<RefBE16(buf, 30), RefBE16(buf, 32)>>,
         udp_src_port |-> RefBE16(buf, 34), udp_dst_port |-> RefBE16(buf, 36),
         udp_length |-> RefBE16(buf, 38), udp_checksum |-> RefBE16(buf, 40),
         rdmx_magic |-> RefBE16(buf, 42),
         rdmx_target |-> <<RefBE16(buf, 44), RefBE16(buf, 46),
                           RefBE16(buf, 48), RefBE16(buf, 50)>>]

\* C14: parse_packet_headers raises nothing and changes only the caller's
\* eth_header_t: the buffer, fp_, every file position and header_ stay as
\* they were, and for a buffer of at least 52 bytes the result is the header
\* the buffer stands for, whatever state the session is in.
C14_DecodeTouchesOnlyItsOutput ==
    [][op' = "parse" =>
          /\ ret' = "return"
          /\ <<packet, fp_, handles, header_, disk>>' = <<packet, fp_, handles, header_, disk>>
          /\ Len(packet.data) >= 52 => eth_header' = RefHeader(packet.data)]_vars

C14_Witness ==
    /\ op = "parse" /\ Closed /\ fp_ = 0
    /\ Len(packet.data) = 53 /\ packet.data = capture.recs[1].payload
    /\ eth_header = RefHeader(packet.data) /\ eth_header.is_rdmx

\* The threads whose parse_packet_headers call has returned
Returned == {t \in DOMAIN threads.th : threads.th[t].pc > Len(Prog)}

\* C15: parse_packet_headers calls that run at the same time on buffers and
\* results of their own, their steps interleaved in any order, each leave
\* the result the same call leaves when it runs alone (and the field a call
\* has just assigned already has that value), and leave the buffers as
\* they were.
C15_ConcurrentDecodeAsAlone ==
    /\ \A t \in Returned :
          threads.th[t].header
              = parse_packet_headers(threads.th[t].data, EthUninit).header
    /\ \A t \in DOMAIN threads.th \ Returned :
          LET i == threads.th[t].pc - 1
          IN  i >= 1 =>
                threads.th[t].header[Prog[i].field]
                    = parse_packet_headers(threads.th[t].data, EthUninit).header[Prog[i].field]
    /\ \A t \in DOMAIN threads.th :
          \E i \in 1..Len(ConcBuffers) : threads.th[t].data = ConcBuffers[i]

C15_Witness ==
    /\ Returned = 1..NThreads
    /\ threads.th[1].header # threads.th[2].header
    /\ threads.th[1].header = RefHeader(threads.th[1].data)

\* The payload of the record a run holds in its slot
OwnPayload(e) ==
    SubSeq(e.packet.data, 1, e.packet.prefix[9] + 256 * e.packet.prefix[10])

\* C16: two runs of the read-and-decode loop that start from the same
\* memory and have each just decoded a record with the same payload bytes
\* hold the same DecodedHeader, whatever records each read before, for
\* payloads of every length including those below 52 bytes.
C16_HeaderDependsOnOwnPayloadOnly ==
    \A i \in DOMAIN runs, j \in DOMAIN runs :
        (/\ runs[i].ret = "decoded" /\ runs[j].ret = "decoded"
         /\ runs[i].fill = runs[j].fill
         /\ OwnPayload(runs[i]) = OwnPayload(runs[j]))
        => runs[i].header = runs[j].header
====
